---- MODULE Spec2Model ----
(***************************************************************************)
(* The Candy Land engine of candyland.py: the class CandyLand with its     *)
(* position index (character and bridge mappings), the traversal function  *)
(* traverse, the transition matrix and the Monte Carlo game play().        *)
(*                                                                         *)
(* Python values.  A str card label is the sequence of its characters     *)
(* (card[0] is card[1] here, len(card) is Len(card)); a color, a special   *)
(* tag and a bridge name are atoms.  A key a space does not have reads as  *)
(* NoVal (dict.get returns None), for the "char" key as NoName.  What a    *)
(* call gives back is a record: PyInt(i) for the integer i, None for None, *)
(* Raised(e) for the exception e.  Python indices start at 0, so space i   *)
(* of the board is board[i + 1].                                           *)
(***************************************************************************)
EXTENDS Integers, Sequences, FiniteSets, TLC

VARIABLES
    board,               \* self.board: the sequence of spaces
    deck,                \* self.deck: Counter, card label -> count
    characters,          \* self.characters: list of character names
    bridges,             \* self.bridges: list of bridge names
    shuffled_deck,       \* self.shuffled_deck: the working deck, drawn from its end
    character_mappings,  \* self.character_mappings
    bridge_mappings,     \* self.bridge_mappings
    traversal_matrix,    \* self.traversal_matrix (numerators over deck_size)
    pos,                 \* self.pos
    pc,                  \* "ready", "loop" (inside play), "failed" (__init__
                         \* raised), "raised" (play raised)
    turns,               \* play's local turns
    games,               \* calls of play() made so far
    ret,                 \* the value the last play() returned
    p_card,              \* play's local card: the card popped last
    drawn,               \* history: label -> cards popped since the working
                         \* deck was last filled
    draws,               \* history: cards popped by the current play()
    probs,               \* play_markov's local probs (numerators: element k
                         \* is over deck_size ^ k, k counted from 1)
    arr,                 \* the argument of play_markov's inner play
    markov_probs,        \* the script's markov_probs: what play_markov returned
    t_called,            \* a call of traverse has been recorded
    t_card,              \* its card argument
    t_start,             \* its start argument
    t_result             \* what it gave back

vars == <<board, deck, characters, bridges, shuffled_deck, character_mappings,
          bridge_mappings, traversal_matrix, pos, pc, turns, games, ret,
          p_card, drawn, draws, probs, arr, markov_probs,
          t_called, t_card, t_start, t_result>>

config == <<board, deck, characters, bridges, character_mappings,
            bridge_mappings, traversal_matrix>>

play_locals == <<p_card, drawn, draws>>

markov == <<probs, arr, markov_probs>>

recorded == <<t_called, t_card, t_start, t_result>>

----------------------------------------------------------------------------
(* Bounds of the model *)

\* longest run of spaces between the start and the end of a board traverse
\* is called on
MaxInner == 3

\* longest run of spaces between the start and the end of a board games are
\* played on
MaxPlayInner == 2

\* turns is counted exactly up to MaxTurns and stays there
MaxTurns == 4

\* calls of play() on one engine
MaxGames == 2

\* depth to which play_markov's recursion is followed
MaxMarkov == 8

----------------------------------------------------------------------------
(* Python values *)

NoVal == "None"

NoName == <<>>

PyInt(i) == [kind |-> "int", val |-> i]

None == [kind |-> "None", val |-> 0]

Raised(e) == [kind |-> e, val |-> 0]

Range(s) == {s[k] : k \in 1..Len(s)}

Min(S) == CHOOSE x \in S : \A y \in S : x <= y

----------------------------------------------------------------------------
(* Spaces, boards and decks the engine is constructed with *)

Space(color, char, special, bridge, end) ==
    [color |-> color, char |-> char, special |-> special, bridge |-> bridge, end |-> end]

StartSpace == Space(NoVal, NoName, "start", NoVal, NoVal)

EndSpace == Space(NoVal, NoName, "end", NoVal, NoVal)

ColorSpace(c) == Space(c, NoName, NoVal, NoVal, NoVal)

MissSpace(c) == Space(c, NoName, "miss", NoVal, NoVal)

SkipSpace == Space(NoVal, NoName, "skip", NoVal, NoVal)

CharSpace(name) == Space(NoVal, name, NoVal, NoVal, NoVal)

BridgeStart(c, name) == Space(c, NoName, NoVal, name, NoVal)

BridgeEnd(c, name) == Space(c, NoName, NoVal, NoVal, name)

\* the spaces a board is made of between its start and its end
Kinds ==
    {ColorSpace("b"), MissSpace("b"), SkipSpace, CharSpace(<<"X">>),
     BridgeStart("b", "A"), BridgeEnd("b", "A")}

BoardsUpTo(n) ==
    {<<StartSpace>> \o inner \o <<EndSpace>> :
        inner \in UNION {[1..k -> Kinds] : k \in 0..n}}

\* [start, red, blue + bridge A, green, blue + end A, end]
ExampleBoard ==
    <<StartSpace, ColorSpace("r"), BridgeStart("b", "A"), ColorSpace("g"),
      BridgeEnd("b", "A"), EndSpace>>

TraverseBoards == BoardsUpTo(MaxInner) \cup {ExampleBoard}

PlayBoards == BoardsUpTo(MaxPlayInner)

\* card labels traverse is called with: colors of the board, a color of no
\* space of a generated board (r), a character name, the empty string
CardLabels ==
    {<<"b">>, <<"b", "b">>, <<"r">>, <<"r", "r">>, <<"X">>, <<>>}

\* the decks games are played with
PlayDecks ==
    {[c \in {<<"b">>} |-> 1],
     [c \in {<<"b">>, <<"X">>} |-> 1],
     [c \in {<<"b", "b">>, <<"X">>} |-> 1],
     [c \in {<<"b">>, <<"b", "b">>} |-> IF c = <<"b">> THEN 2 ELSE 1],
     [c \in {<<"b">>, <<"b", "b">>, <<"X">>} |-> 1]}

\* the one-card decks of the engines traverse is called on
TraverseDecks ==
    {[c \in {l} |-> 1] : l \in {<<"b">>, <<"b", "b">>, <<"X">>}}

----------------------------------------------------------------------------
(* The position index *)

Positions == 0..(Len(board) - 1)

\* slip: a name with no space is given index 0
_get_character_pos_zero(character) ==
    LET found == {idx \in Positions : board[idx + 1].char = character}
    IN  IF found # {} THEN PyInt(Min(found)) ELSE PyInt(0)

\* slip: the loop does not stop at the first space of the name
_get_character_pos_last(character) ==
    LET found == {idx \in Positions : board[idx + 1].char = character}
    IN  IF found # {} THEN PyInt(CHOOSE x \in found : \A y \in found : y <= x)
        ELSE None

_get_character_pos(character) ==
    LET found == {idx \in Positions : board[idx + 1].char = character}
    IN  IF found # {} THEN PyInt(Min(found)) ELSE None

_make_character_mappings ==
    [character \in Range(characters) |-> _get_character_pos(character)]

_get_bridge_end_pos(bridge) ==
    LET found == {idx \in Positions : board[idx + 1].end = bridge}
    IN  IF found # {} THEN PyInt(Min(found)) ELSE None

_make_bridge_mappings ==
    [bridge \in Range(bridges) |-> _get_bridge_end_pos(bridge)]

----------------------------------------------------------------------------
(* traverse *)

\* slip: the test names the wrong special tag
is_end_wrong_tag(space) == space.special = "start"

\* start_space.get("special") == "end"
is_end(space) == space.special = "end"

\* slip: a miss space moves the token two spaces on
miss_target_two(start) == PyInt(start + 2)

\* slip: a miss space leaves the token where it is
miss_target_same(start) == PyInt(start)

\* start_space.get("special") == "miss": return start + 1
miss_target(start) == PyInt(start + 1)

\* slip: the search starts on the start space itself (idx >= start)
matches_from_start(card, start) ==
    {idx \in Positions : idx >= start /\ board[idx + 1].color = card[1]}

\* the for loop's search: the spaces after start whose color is card[0]
matches(card, start) ==
    {idx \in Positions : idx > start /\ board[idx + 1].color = card[1]}

\* slip: the bridge of the space found is not taken
land_ignores_bridge(space, idx) == PyInt(idx)

\* a single-color card on the space found
land(space, idx) ==
    IF space.bridge # NoVal
    THEN IF space.bridge \in DOMAIN bridge_mappings
         THEN bridge_mappings[space.bridge]
         ELSE Raised("KeyError")
    ELSE PyInt(idx)

\* slip: return len(self.board)
end_of_board_past == PyInt(Len(board))

\* return len(self.board) - 1
end_of_board == PyInt(Len(board) - 1)

RECURSIVE traverse(_, _)
traverse(card, start) ==
    LET start_space == board[start + 1]
    IN  IF is_end(start_space) THEN PyInt(start)
        ELSE IF start_space.special = "miss" THEN miss_target(start)
        ELSE IF card \in Range(characters) THEN character_mappings[card]
        ELSE IF Len(card) = 0 /\ start < Len(board) - 1 THEN Raised("IndexError")
        ELSE IF matches(card, start) # {}
             THEN LET idx == Min(matches(card, start))
                  IN  IF Len(card) = 1
                      THEN land(board[idx + 1], idx)
                      ELSE traverse(<<card[1]>>, idx)
             ELSE end_of_board

----------------------------------------------------------------------------
(* The deck and the transition matrix *)

RECURSIVE total(_, _)
total(counter, labels) ==
    IF labels = {} THEN 0
    ELSE LET c == CHOOSE x \in labels : TRUE
         IN  counter[c] + total(counter, labels \ {c})

deck_size == total(deck, DOMAIN deck)

\* sorted(self.deck.elements()), shuffled: any order of the deck's cards
make_shuffled_deck ==
    {s \in [1..deck_size -> DOMAIN deck] :
        \A c \in DOMAIN deck : Cardinality({k \in 1..deck_size : s[k] = c}) = deck[c]}

\* slip: the cell is assigned, not added to (= for +=)
add_count_assigns(m, j, count) == [m EXCEPT ![j] = count]

\* m[self.traverse(card, i)] += count / deck_size, kept as the numerator count
add_count(m, j, count) == [m EXCEPT ![j] = @ + count]

\* slip: the start is left to its default (self.traverse(card))
target_default_start(c, i) == traverse(c, 0).val

\* self.traverse(card, i), the cell of row i that card c adds to
target(c, i) == traverse(c, i).val

RECURSIVE matrix_row(_, _, _)
matrix_row(m, cards, i) ==
    IF cards = {} THEN m
    ELSE LET c == CHOOSE x \in cards : TRUE
         IN  matrix_row(add_count(m, target(c, i), deck[c]), cards \ {c}, i)

make_traversal_matrix ==
    [i \in Positions |-> matrix_row([j \in Positions |-> 0], DOMAIN deck, i)]

\* m[...] raises unless traverse gave an index of the list m
matrix_raises ==
    \E i \in Positions, card \in DOMAIN deck :
        \/ traverse(card, i).kind # "int"
        \/ traverse(card, i).val \notin Positions

----------------------------------------------------------------------------
(* __init__ *)

Constructed ==
    /\ shuffled_deck \in make_shuffled_deck
    /\ character_mappings = _make_character_mappings
    /\ bridge_mappings = _make_bridge_mappings
    /\ IF matrix_raises
       THEN traversal_matrix = <<>> /\ pc = "failed"
       ELSE traversal_matrix = make_traversal_matrix /\ pc = "ready"
    /\ pos = 0
    /\ turns = 0
    /\ games = 0
    /\ ret = 0
    /\ p_card = <<>>
    /\ drawn = [c \in DOMAIN deck |-> 0]
    /\ draws = 0
    /\ probs = <<>>
    /\ arr = <<>>
    /\ markov_probs = <<>>
    /\ t_called = FALSE
    /\ t_card = <<>>
    /\ t_start = 0
    /\ t_result = None

InitTraverse ==
    /\ board \in TraverseBoards
    /\ deck \in TraverseDecks
    /\ characters \in {<<>>, << <<"X">> >>}
    /\ bridges \in {<<>>, <<"A">>}
    /\ Constructed

InitPlay ==
    /\ board \in PlayBoards
    /\ deck \in PlayDecks
    /\ characters = << <<"X">> >>
    /\ bridges = <<"A">>
    /\ Constructed

----------------------------------------------------------------------------
(* Calls of traverse: by make_traversal_matrix while __init__ runs (the     *)
(* cards of the deck), and by any caller once the engine exists.  traverse *)
(* changes nothing of the engine, so a behaviour records one call.         *)

TraverseCall ==
    \E card \in CardLabels, start \in Positions :
        /\ ~t_called
        /\ pc = "ready" \/ card \in DOMAIN deck
        /\ t_called' = TRUE
        /\ t_card' = card
        /\ t_start' = start
        /\ t_result' = traverse(card, start)
        /\ UNCHANGED <<config, shuffled_deck, pos, pc, turns, games, ret,
                       play_locals, markov>>

NextTraverse == TraverseCall

SpecTraverse == InitTraverse /\ [][NextTraverse]_vars

----------------------------------------------------------------------------
(* play *)

\* slip: the card is read, not popped (shuffled_deck[-1])
pop_rest_peeks(working) == working

\* what self.shuffled_deck.pop() leaves of the working deck
pop_rest(working) == SubSeq(working, 1, Len(working) - 1)

\* slip: the turn is not counted
count_turn_none(t) == t

\* turns += 1 (kept at MaxTurns once there)
count_turn(t) == IF t < MaxTurns THEN t + 1 ELSE t

\* self.pos = 0; turns = 0
PlayCall ==
    /\ pc = "ready"
    /\ games < MaxGames
    /\ games' = games + 1
    /\ pos' = 0
    /\ turns' = 0
    /\ pc' = "loop"
    /\ draws' = 0
    /\ UNCHANGED <<config, shuffled_deck, ret, p_card, drawn, markov, recorded>>

\* one iteration of the while loop: refill the empty working deck, pop its
\* last card, move, count the turn
LoopIter ==
    /\ pc = "loop"
    /\ pos < Len(board) - 1
    /\ \E working \in (IF Len(shuffled_deck) = 0
                        THEN make_shuffled_deck
                        ELSE {shuffled_deck}) :
          LET popped == working[Len(working)]
              moved == traverse(popped, pos)
          IN  /\ shuffled_deck' = pop_rest(working)
              /\ p_card' = popped
              /\ drawn' = IF Len(shuffled_deck) = 0
                          THEN [c \in DOMAIN deck |-> IF c = popped THEN 1 ELSE 0]
                          ELSE [drawn EXCEPT ![popped] = @ + 1]
              /\ IF moved.kind = "int"
                 THEN pos' = moved.val /\ pc' = pc
                 ELSE pos' = pos /\ pc' = "raised"
    /\ turns' = count_turn(turns)
    /\ draws' = IF draws < MaxTurns THEN draws + 1 ELSE draws
    /\ UNCHANGED <<config, games, ret, markov, recorded>>

\* the loop's test fails: return turns
PlayReturn ==
    /\ pc = "loop"
    /\ ~(pos < Len(board) - 1)
    /\ ret' = turns
    /\ pc' = "ready"
    /\ UNCHANGED <<config, shuffled_deck, pos, turns, games, play_locals,
                   markov, recorded>>

Next ==
    \/ PlayCall
    \/ LoopIter
    \/ PlayReturn

Spec == InitPlay /\ [][Next]_vars

\* a call of play() runs on: the loop takes its next iteration or returns
LiveSpec == Spec /\ WF_vars(LoopIter) /\ WF_vars(PlayReturn)

----------------------------------------------------------------------------
(* play_markov.  A probability vector is kept as its numerators: the        *)
(* initial vector is over 1, the vector after k multiplications by the      *)
(* matrix is over deck_size ^ k.  The decks of the model have 1, 2 or 3     *)
(* cards, so no terminal mass comes within rounding of .995.                *)

RECURSIVE pow(_, _)
pow(b, k) == IF k = 0 THEN 1 ELSE b * pow(b, k - 1)

\* the .995 of the test, as the fraction 199 / 200
ThresholdNum == 199

ThresholdDen == 200

\* slip: .95 for .995
exceeds_095(a, k) == a[Len(board) - 1] * 100 > 95 * pow(deck_size, k)

\* arr[len(self.board) - 1] > .995, a being over deck_size ^ k
exceeds(a, k) ==
    a[Len(board) - 1] * ThresholdDen > ThresholdNum * pow(deck_size, k)

\* the sum over i < n of a[i] * traversal_matrix[i][j]
RECURSIVE dot(_, _, _)
dot(a, j, n) ==
    IF n = 0 THEN 0
    ELSE a[n - 1] * traversal_matrix[n - 1][j] + dot(a, j, n - 1)

\* matmul(arr, self.traversal_matrix)
matmul(a) == [j \in Positions |-> dot(a, j, Len(board))]

\* initial = [0] * len(self.board); initial[0] = 1
initial == [j \in Positions |-> IF j = 0 THEN 1 ELSE 0]

\* probs = []; play(initial)
MarkovCall ==
    /\ pc = "ready"
    /\ pc' = "markov"
    /\ probs' = <<>>
    /\ arr' = initial
    /\ UNCHANGED <<config, shuffled_deck, pos, turns, games, ret, play_locals,
                   markov_probs, recorded>>

\* the inner play below the threshold: next = matmul(...);
\* probs.append(next); play(next)
MarkovStep ==
    /\ pc = "markov"
    /\ ~exceeds(arr, Len(probs))
    /\ Len(probs) < MaxMarkov
    /\ probs' = Append(probs, matmul(arr))
    /\ arr' = matmul(arr)
    /\ UNCHANGED <<config, shuffled_deck, pos, pc, turns, games, ret,
                   play_locals, markov_probs, recorded>>

\* the inner play above the threshold returns, and so do all its callers:
\* return probs
MarkovReturn ==
    /\ pc = "markov"
    /\ exceeds(arr, Len(probs))
    /\ markov_probs' = probs
    /\ pc' = "ready"
    /\ UNCHANGED <<config, shuffled_deck, pos, turns, games, ret, play_locals,
                   probs, arr, recorded>>

NextMarkov ==
    \/ MarkovCall
    \/ MarkovStep
    \/ MarkovReturn

SpecMarkov == InitPlay /\ [][NextMarkov]_vars

----------------------------------------------------------------------------
(* What the claims speak of, stated on the board itself *)

Terminal == Len(board) - 1

IsIndex(r) == r.kind = "int" /\ r.val \in Positions

Failed(r) == r.kind \notin {"int", "None"}

OnEnd(i) == board[i + 1].special = "end"

OnMiss(i) == board[i + 1].special = "miss"

HasColor(i, c) == board[i + 1].color = c

IsBridgeStart(i) == board[i + 1].bridge # NoVal

\* some space of color c lies after space i
HasNext(c, i) == \E j \in Positions : j > i /\ HasColor(j, c)

\* the first space of color c after space i
NextOfColor(c, i) ==
    CHOOSE j \in Positions :
        /\ j > i
        /\ HasColor(j, c)
        /\ \A k \in Positions : (i < k /\ k < j) => ~HasColor(k, c)

\* space e is the end of the bridge that starts on space s
IsEndOf(e, s) == e \in Positions /\ board[e + 1].end = board[s + 1].bridge

\* every character name has a space, every bridge on the board is a listed
\* bridge with an end space
WellFormed ==
    /\ \A name \in Range(characters) :
          \E i \in Positions : board[i + 1].char = name
    /\ \A s \in Positions :
          IsBridgeStart(s) =>
              /\ board[s + 1].bridge \in Range(bridges)
              /\ \E e \in Positions : IsEndOf(e, s)

\* the bridge that starts on space s is a listed bridge with an end space
Resolves(s) ==
    /\ board[s + 1].bridge \in Range(bridges)
    /\ \E e \in Positions : IsEndOf(e, s)

\* r is what landing on space g gives: g itself, or an end of the bridge
\* that starts on g, or no index at all when that bridge has no end
LandsOn(r, g) ==
    IF ~IsBridgeStart(g) THEN r = PyInt(g)
    ELSE IF Resolves(g) THEN r.kind = "int" /\ IsEndOf(r.val, g)
    ELSE ~IsIndex(r)

\* r is what one move to the next space of color c after space i gives
SingleMoveGives(r, c, i) ==
    IF HasNext(c, i) THEN LandsOn(r, NextOfColor(c, i)) ELSE r = PyInt(Terminal)

\* a color card: not empty, not a character name
IsColorCard(card) == card # <<>> /\ card \notin Range(characters)

\* the recorded call started on a space that is neither the end nor a miss
\* space, with a color card
ColorCall ==
    /\ t_called
    /\ ~OnEnd(t_start)
    /\ ~OnMiss(t_start)
    /\ IsColorCard(t_card)

----------------------------------------------------------------------------
(* C1: the end space is absorbing: traverse(card, terminal index) returns   *)
(* the terminal index for every card label, character cards included.      *)

C1_EndAbsorbing ==
    (t_called /\ t_start = Terminal) => t_result = PyInt(Terminal)

\* a character card whose space lies earlier was played from the end
C1_Witness ==
    /\ t_called
    /\ t_start = Terminal
    /\ t_card = <<"X">>
    /\ t_card \in Range(characters)
    /\ \E i \in Positions : i < Terminal /\ character_mappings[t_card] = PyInt(i)
    /\ t_result = PyInt(Terminal)

----------------------------------------------------------------------------
(* C2: on a well-formed board traverse returns, for every position and      *)
(* every non-empty card label, an integer index j with 0 <= j < |Board|.    *)

C2_IndexInRange ==
    (t_called /\ WellFormed /\ t_card # <<>>) => IsIndex(t_result)

\* a card played from a miss space that is the last space before the end, on
\* a well-formed board that has a bridge and a character space
C2_Witness ==
    /\ t_called
    /\ WellFormed
    /\ t_card # <<>>
    /\ OnMiss(t_start)
    /\ t_start + 1 = Terminal
    /\ t_result = PyInt(Terminal)
    /\ \E s \in Positions : IsBridgeStart(s)

----------------------------------------------------------------------------
(* C3: a double-color card whose first hop lands on a bridge-start space.   *)

\* the recorded call is a double-color card whose first hop is a bridge start
DoubleOverBridge ==
    /\ ColorCall
    /\ Len(t_card) = 2
    /\ HasNext(t_card[1], t_start)
    /\ IsBridgeStart(NextOfColor(t_card[1], t_start))

ExampleDoubleBlue ==
    t_called /\ board = ExampleBoard /\ bridges = <<"A">>
        /\ t_card = <<"b", "b">> /\ t_start = 0

\* C3 as claimed: the second hop of a double-color card whose first hop lands
\* on a bridge-start space starts from the bridge's end index, so the card
\* gives what a single-color move from the bridge end gives; on the example
\* board traverse("bb", 0) returns 5.
C3_Original ==
    /\ (DoubleOverBridge /\ Resolves(NextOfColor(t_card[1], t_start))) =>
          SingleMoveGives(t_result, t_card[1],
              bridge_mappings[board[NextOfColor(t_card[1], t_start) + 1].bridge].val)
    /\ ExampleDoubleBlue => t_result = PyInt(5)

\* C3 as amended: the second hop of a double-color card whose first hop lands
\* on a bridge-start space starts from the bridge-start index itself (the
\* bridge is not taken on the first hop), so the card gives what a
\* single-color move from the bridge start gives; on the example board
\* traverse("bb", 0) returns 4.
C3_SecondHopFromBridgeStart ==
    /\ DoubleOverBridge =>
          SingleMoveGives(t_result, t_card[1], NextOfColor(t_card[1], t_start))
    /\ ExampleDoubleBlue => t_result = PyInt(4)

\* traverse("bb", 0) on the example board
C3_Witness ==
    /\ DoubleOverBridge
    /\ ExampleDoubleBlue
    /\ bridge_mappings["A"] = PyInt(4)
    /\ t_result = PyInt(4)

----------------------------------------------------------------------------
(* C5: bridge resolution on the final hop.                                  *)

\* the forward scan of the card's final hop finds a space
HasFinal(card, start) ==
    /\ HasNext(card[1], start)
    /\ Len(card) # 1 =>
          /\ ~OnMiss(NextOfColor(card[1], start))
          /\ ~OnEnd(NextOfColor(card[1], start))
          /\ HasNext(card[1], NextOfColor(card[1], start))

\* the space that scan finds
Final(card, start) ==
    IF Len(card) = 1 THEN NextOfColor(card[1], start)
    ELSE NextOfColor(card[1], NextOfColor(card[1], start))

\* C5: from a start that is neither the end nor a miss space, a color card
\* (single, or double on its second hop) whose final forward scan finds a
\* bridge-start space returns the index of that bridge's end space, never the
\* bridge-start index.
C5_FinalHopBridge ==
    (ColorCall /\ HasFinal(t_card, t_start)
        /\ IsBridgeStart(Final(t_card, t_start))
        /\ Resolves(Final(t_card, t_start))) =>
            /\ t_result.kind = "int"
            /\ IsEndOf(t_result.val, Final(t_card, t_start))
            /\ t_result.val # Final(t_card, t_start)

\* a double-color card whose second hop finds a bridge start
C5_Witness ==
    /\ ColorCall
    /\ Len(t_card) = 2
    /\ HasFinal(t_card, t_start)
    /\ IsBridgeStart(Final(t_card, t_start))
    /\ Resolves(Final(t_card, t_start))
    /\ ~IsBridgeStart(NextOfColor(t_card[1], t_start))
    /\ t_result.val > Final(t_card, t_start)
    /\ IsEndOf(t_result.val, Final(t_card, t_start))

----------------------------------------------------------------------------
(* C9: a card label that is neither a character name nor a color of the     *)
(* board.                                                                  *)

\* the recorded call's card is of no color of the board and no character
UnknownCardCall ==
    /\ ColorCall
    /\ \A i \in Positions : ~HasColor(i, t_card[1])

\* C9 as claimed: a card label that is neither a character name nor a color
\* of the board makes traverse fail explicitly, from every start that is
\* neither the end nor a miss space.
C9_Original == UnknownCardCall => Failed(t_result)

\* C9 as amended: a non-empty card label that is neither a character name nor
\* a color of the board does not make traverse fail: from every start that
\* is neither the end nor a miss space traverse returns the terminal index.
C9_UnknownCardGoesToEnd == UnknownCardCall => t_result = PyInt(Terminal)

\* the double card "rr" played from the start of a board with no red space
C9_Witness ==
    /\ UnknownCardCall
    /\ t_card = <<"r", "r">>
    /\ t_start = 0
    /\ Terminal > 1
    /\ t_result = PyInt(Terminal)

----------------------------------------------------------------------------
(* C4: from a miss space every card has the same effect.                    *)

\* the working deck the next draw is taken from
DrawnFrom == IF Len(shuffled_deck) = 0 THEN deck_size ELSE Len(shuffled_deck)

\* C4: from every miss space i every card label gives traverse(c, i) = i + 1,
\* and in play() the draw that follows landing on a miss space is consumed,
\* is counted as a turn and moves the token to the adjacent space only.
C4_MissCostsATurn ==
    /\ [](\A i \in Positions : \A c \in CardLabels :
            OnMiss(i) => traverse(c, i) = PyInt(i + 1))
    /\ [][(pc = "loop" /\ OnMiss(pos)) =>
            /\ pos' = pos + 1
            /\ pc' = "loop"
            /\ Len(shuffled_deck') = DrawnFrom - 1
            /\ turns < MaxTurns => turns' = turns + 1]_vars

\* the token stands on a skip space right after a miss space, two draws into
\* the game: the first draw landed on the miss space, the second was spent
C4_Witness ==
    /\ pc = "loop"
    /\ turns = 2
    /\ pos >= 1
    /\ OnMiss(pos - 1)
    /\ board[pos + 1].special = "skip"

----------------------------------------------------------------------------
(* C6: every row of the transition matrix is a probability distribution.    *)

RECURSIVE RowSum(_, _)
RowSum(row, n) == IF n < 0 THEN 0 ELSE row[n] + RowSum(row, n - 1)

\* the cards of the deck that lead from space i to space j
CardsTo(i, j) == {c \in DOMAIN deck : traverse(c, i) = PyInt(j)}

\* C6: in every row i each card label c with multiplicity n adds n (over
\* deck_size) to the one cell (i, traverse(c, i)); no entry is negative and
\* the entries of the row sum to deck_size (over deck_size: 1).
C6_RowsAreDistributions ==
    pc # "failed" =>
        \A i \in Positions :
            /\ \A j \in Positions :
                  /\ traversal_matrix[i][j] >= 0
                  /\ traversal_matrix[i][j] = total(deck, CardsTo(i, j))
            /\ RowSum(traversal_matrix[i], Terminal) = deck_size

\* a matrix with a row of two destinations and a cell two labels add to
C6_Witness ==
    /\ pc = "ready"
    /\ \E i \in Positions : \E j, k \in Positions :
          j # k /\ traversal_matrix[i][j] > 0 /\ traversal_matrix[i][k] > 0
    /\ \E i \in Positions : \E j \in Positions :
          i # Terminal /\ Cardinality(CardsTo(i, j)) >= 2

----------------------------------------------------------------------------
(* C7: play() terminates.                                                   *)

\* no card of the deck is, or begins with, a character name, and every
\* bridge of the board ends after it starts
ForwardOnly ==
    /\ \A c \in DOMAIN deck :
          c \notin Range(characters) /\ <<c[1]>> \notin Range(characters)
    /\ \A s \in Positions : \A e \in Positions :
          (IsBridgeStart(s) /\ IsEndOf(e, s)) => e > s

\* C7 as claimed: every call of play() returns, for every order of the
\* shuffled deck and of every reshuffle, also when the deck holds character
\* cards that move the token backward.
C7_Original == (pc = "loop") ~> (pc = "ready")

\* C7 as amended: every call of play() returns, for every order of the
\* shuffled deck and of every reshuffle, when the deck holds color cards only
\* and every bridge leads forward: each draw then moves the token forward and
\* the game takes at most |Board| - 1 draws.
C7_TerminatesForwardOnly ==
    /\ (pc = "loop" /\ ForwardOnly) ~> (pc = "ready")
    /\ [][(pc = "loop" /\ pos < Terminal /\ ForwardOnly) => pos' > pos]_vars
    /\ [](ForwardOnly => turns <= Terminal)

\* a game on a board with a bridge, played to its end in two draws or more
C7_Witness ==
    /\ ForwardOnly
    /\ pc = "ready"
    /\ games >= 1
    /\ ret >= 2
    /\ pos = Terminal
    /\ \E s \in Positions : IsBridgeStart(s)

----------------------------------------------------------------------------
(* C8: games are independent.                                               *)

\* C8: every call of play() starts from position 0 and from a full, freshly
\* shuffled working deck: no card drawn in an earlier game is missing from
\* the deck the next game draws from.
C8_FreshDeckEachGame ==
    (pc = "loop" /\ turns = 0) =>
        /\ pos = 0
        /\ shuffled_deck \in make_shuffled_deck

----------------------------------------------------------------------------
(* C10: names that no space resolves.                                       *)

HasCharSpace(name) == \E i \in Positions : board[i + 1].char = name

HasEndSpace(name) == \E i \in Positions : board[i + 1].end = name

\* C10 as claimed: an engine constructed with a character or bridge name that
\* no space resolves does not exist (construction fails); the mappings never
\* hold a not-found value, and traverse never returns one.
C10_Original ==
    pc # "failed" =>
        /\ \A name \in Range(characters) : HasCharSpace(name)
        /\ \A name \in Range(bridges) : HasEndSpace(name)
        /\ \A name \in DOMAIN character_mappings : character_mappings[name] # None
        /\ \A name \in DOMAIN bridge_mappings : bridge_mappings[name] # None
        /\ t_called => t_result # None

\* C10 as amended: the position index does not fail: it maps exactly the
\* names that no space resolves to the not-found value None, and every other
\* name to the index of a space of that name.  Construction fails later, in
\* the matrix, and only when traverse gives no board index for a card of the
\* deck; so on a constructed engine traverse returns no not-found value for
\* a card of the deck, and does return one for a character card outside the
\* deck whose name has no space.
C10_NotFoundIsMapped ==
    /\ \A name \in Range(characters) :
          IF HasCharSpace(name)
          THEN /\ IsIndex(character_mappings[name])
               /\ board[character_mappings[name].val + 1].char = name
          ELSE character_mappings[name] = None
    /\ \A name \in Range(bridges) :
          IF HasEndSpace(name)
          THEN /\ IsIndex(bridge_mappings[name])
               /\ board[bridge_mappings[name].val + 1].end = name
          ELSE bridge_mappings[name] = None
    /\ (pc = "ready" /\ t_called /\ t_card \in DOMAIN deck) => IsIndex(t_result)
    /\ (pc = "ready" /\ t_called /\ t_card \in Range(characters)
            /\ ~HasCharSpace(t_card) /\ ~OnEnd(t_start) /\ ~OnMiss(t_start)) =>
          t_result = None

\* a constructed engine whose character X has no space: its mapping holds
\* None, and traverse("X", 0) has returned it
C10_Witness ==
    /\ pc = "ready"
    /\ t_called
    /\ t_card = <<"X">>
    /\ t_card \in Range(characters)
    /\ character_mappings[t_card] = None
    /\ t_result = None

----------------------------------------------------------------------------
(* C12: character cards.                                                    *)

\* the starts that are neither the end nor a miss space
FreeStarts == {i \in Positions : ~OnEnd(i) /\ ~OnMiss(i)}

\* the recorded call played a character card whose name has a space, from a
\* start that is neither the end nor a miss space
CharacterCall ==
    /\ t_called
    /\ t_start \in FreeStarts
    /\ t_card \in Range(characters)
    /\ HasCharSpace(t_card)

\* r is the index of the first space of character name
IsSpaceOf(r, name) ==
    /\ IsIndex(r)
    /\ board[r.val + 1].char = name
    /\ \A k \in Positions : k < r.val => board[k + 1].char # name

\* the result of card c is the same from every free start
StartIndependent(c) ==
    \A i \in FreeStarts : \A j \in FreeStarts : traverse(c, i) = traverse(c, j)

\* C12 as claimed: from every start that is neither the end nor a miss space
\* a character card returns the index of its character's space, before or
\* after the start, and character cards are the only cards whose result
\* does not depend on the start (stated for color cards whose color is on
\* the board, on boards with two such starts or more).
C12_Original ==
    /\ CharacterCall => IsSpaceOf(t_result, t_card)
    /\ (ColorCall /\ Cardinality(FreeStarts) >= 2
            /\ \E i \in Positions : HasColor(i, t_card[1])) =>
          ~StartIndependent(t_card)

\* C12 as amended: from every start that is neither the end nor a miss space
\* a character card returns the index of its character's (first) space,
\* whether that space lies before or after the start.  (Some color cards
\* do not depend on the start either.)
C12_CharacterCardGoesToItsSpace ==
    CharacterCall => IsSpaceOf(t_result, t_card)

\* a character card played from a space after its character's space
C12_Witness ==
    /\ CharacterCall
    /\ IsSpaceOf(t_result, t_card)
    /\ t_result.val < t_start
    /\ \E k \in Positions : k > t_result.val /\ board[k + 1].char = t_card

----------------------------------------------------------------------------
(* C13: a color card with no remaining match.                               *)

\* the spaces of color c after space i
Remaining(c, i) == {j \in Positions : j > i /\ HasColor(j, c)}

\* C13: from every start that is neither the end nor a miss space a
\* single-color card returns the terminal index when no space of its color
\* lies after the start, and a double-color card returns the terminal index
\* when fewer than two spaces of its color lie after the start.
C13_NoMatchReachesEnd ==
    (ColorCall /\ Cardinality(Remaining(t_card[1], t_start)) < Len(t_card)) =>
        t_result = PyInt(Terminal)

----------------------------------------------------------------------------
(* C18: a double-color card whose first matching space is a miss space.     *)

\* the recorded call is a double-color card whose first hop is a miss space
DoubleOverMiss ==
    /\ ColorCall
    /\ Len(t_card) = 2
    /\ HasNext(t_card[1], t_start)
    /\ OnMiss(NextOfColor(t_card[1], t_start))

----------------------------------------------------------------------------
(* C11: drawing without replacement.                                        *)

\* how many cards of label c the sequence of cards s holds
Count(s, c) == Cardinality({k \in 1..Len(s) : s[k] = c})

\* the step is a draw: an iteration of play's loop
IsDraw == pc = "loop" /\ pc' # "ready"

\* cards of label c in the deck the next draw pops from
CountBefore(c) == IF Len(shuffled_deck) = 0 THEN deck[c] ELSE Count(shuffled_deck, c)

\* C11: the working deck is always a sub-multiset of the full deck, and the
\* cards popped since it was last filled are exactly the cards it lacks, so
\* that when it is empty (and only then is it refilled) every label has
\* been drawn as many times as the deck holds it; each draw removes exactly
\* one card, the one played, and no other step touches the working deck.
C11_DrawnWithoutReplacement ==
    /\ [](pc # "failed" =>
            /\ \A k \in 1..Len(shuffled_deck) : shuffled_deck[k] \in DOMAIN deck
            /\ \A c \in DOMAIN deck :
                  /\ Count(shuffled_deck, c) <= deck[c]
                  /\ drawn[c] + Count(shuffled_deck, c) = deck[c])
    /\ [][/\ IsDraw =>
              /\ Len(shuffled_deck') = DrawnFrom - 1
              /\ \A c \in DOMAIN deck :
                    Count(shuffled_deck', c) =
                        CountBefore(c) - (IF c = p_card' THEN 1 ELSE 0)
              /\ Len(shuffled_deck') >= Len(shuffled_deck) =>
                    /\ Len(shuffled_deck) = 0
                    /\ drawn = deck
          /\ ~IsDraw => shuffled_deck' = shuffled_deck]_vars

\* a game has drawn a whole deck of two labels or more and the first card of
\* the next fill
C11_Witness ==
    /\ pc = "loop"
    /\ Cardinality(DOMAIN deck) >= 2
    /\ draws = deck_size + 1
    /\ Len(shuffled_deck) = deck_size - 1

----------------------------------------------------------------------------
(* C16: what play() returns.                                                *)

\* the last call of play() has returned
Returned == pc = "ready" /\ games >= 1

\* C16: play() returns the number of cards the game popped, one for each
\* iteration of the loop whatever space it started on, the count is 1 or
\* more (every board has a start and an end, two spaces at least), and on
\* return the position is the terminal index.
C16_ReturnsDrawCount ==
    /\ pc = "loop" => turns = draws
    /\ Returned =>
          /\ ret = draws
          /\ ret >= 1
          /\ pos = Terminal

\* a returned game of three draws on a board of four spaces, one of them a
\* miss space, with b cards only: one draw was made on the miss space
C16_Witness ==
    /\ Returned
    /\ DOMAIN deck = {<<"b">>}
    /\ Len(board) = 4
    /\ \E i \in Positions : OnMiss(i)
    /\ ret = 3

----------------------------------------------------------------------------
(* C17: the simulated game moves along the matrix's positive entries.       *)

\* C17: every draw of play() that moves the token from i to j with a card of
\* the deck has traversal_matrix[i][j] > 0, and every positive entry (i, j)
\* is produced by a card label of the deck.
C17_PlayRefinesMatrix ==
    /\ [](pc # "failed" =>
            \A i \in Positions : \A j \in Positions :
                traversal_matrix[i][j] > 0 =>
                    \E c \in DOMAIN deck : traverse(c, i) = PyInt(j))
    /\ [][(IsDraw /\ pc' = "loop") =>
              /\ p_card' \in DOMAIN deck
              /\ traverse(p_card', pos) = PyInt(pos')
              /\ traversal_matrix[pos][pos'] > 0]_vars

\* a later draw of a game moved the token by a card that is not the only
\* way out of the space it left: the entry it used is positive and below 1
C17_Witness ==
    /\ pc = "loop"
    /\ draws >= 2
    /\ pos > 0
    /\ \E i \in Positions :
          /\ i > 0
          /\ traverse(p_card, i) = PyInt(pos)
          /\ traversal_matrix[i][pos] > 0
          /\ traversal_matrix[i][pos] < deck_size

----------------------------------------------------------------------------
(* C19: color cards move forward.                                           *)

\* every bridge of the board is a listed bridge whose end lies after it
BridgesForward ==
    \A s \in Positions :
        IsBridgeStart(s) =>
            /\ Resolves(s)
            /\ \A e \in Positions : IsEndOf(e, s) => e > s

\* C19: on a board where every bridge ends after it starts, for every
\* position i before the terminal index and every single- or double-color
\* card c, traverse(c, i) > i; a draw of play() that decreases the position
\* played a character card.
C19_ColorCardsMoveForward ==
    /\ [](BridgesForward =>
            \A i \in Positions : \A c \in CardLabels :
                (i < Terminal /\ IsColorCard(c)) =>
                    /\ IsIndex(traverse(c, i))
                    /\ traverse(c, i).val > i)
    /\ [][(BridgesForward /\ IsDraw /\ pos' < pos) =>
              p_card' \in Range(characters)]_vars

\* the first draw of a game was a b card that took a forward bridge
C19_Witness ==
    /\ pc = "loop"
    /\ BridgesForward
    /\ draws = 1
    /\ p_card = <<"b">>
    /\ \E s \in Positions : IsBridgeStart(s) /\ s < pos /\ IsEndOf(pos, s)

----------------------------------------------------------------------------
(* C14: play_markov stops at the first vector above the threshold.          *)

RECURSIVE Sum(_, _)
Sum(f, S) ==
    IF S = {} THEN 0
    ELSE LET x == CHOOSE y \in S : TRUE IN f[x] + Sum(f, S \ {x})

\* the row vector v multiplied by the transition matrix
VecMul(v) ==
    [j \in Positions |->
        Sum([i \in Positions |-> v[i] * traversal_matrix[i][j]], Positions)]

\* all mass on index 0
MassAtStart == [j \in Positions |-> IF j = 0 THEN 1 ELSE 0]

\* element k (counted from 1) of list l has terminal mass above .995
Above(l, k) ==
    l[k][Terminal] * ThresholdDen > ThresholdNum * pow(deck_size, k)

\* every element of list l is its predecessor multiplied by the matrix, the
\* first being the all-mass-at-index-0 vector multiplied once
IsChain(l) ==
    \A k \in 1..Len(l) :
        l[k] = VecMul(IF k = 1 THEN MassAtStart ELSE l[k - 1])

----------------------------------------------------------------------------
(* C15: what the elements of the returned list are.                         *)

\* the distribution of the chain after t draws, over deck_size ^ t
RECURSIVE AfterDraws(_)
AfterDraws(t) == IF t = 0 THEN MassAtStart ELSE VecMul(AfterDraws(t - 1))

\* C15: the returned list is indexed by turn number from turn 0: the
\* terminal entry of element t (t = 0, 1, ...) is the probability that the
\* end is reached within t draws (element t is over deck_size ^ (t + 1),
\* the distribution after t draws over deck_size ^ t).
C15_IndexedFromTurnZero ==
    \A t \in 0..(Len(markov_probs) - 1) :
        markov_probs[t + 1][Terminal] = deck_size * AfterDraws(t)[Terminal]

====
